---------------------------- MODULE Spec2Model ----------------------------
(***************************************************************************)
(* Loan calculator (LoanCalculator v2.1): schedule generators, summarizer, *)
(* validator and facade, as a state machine over one loan's parameters.    *)
(*                                                                         *)
(* Numbers.  The program computes with IEEE doubles.  Here a number is an  *)
(* exact fraction [n, d] in lowest terms with d > 0; d = 0 stands for the  *)
(* non-finite doubles (1/0 = Infinity, -1/0 = -Infinity, 0/0 = NaN), which *)
(* is what a division by zero produces.  The loans drawn in Init keep      *)
(* every intermediate value far below 2^53 and give roundWon no argument   *)
(* whose double would fall on the other side of a .5 boundary, so the      *)
(* exact fraction and the double round to the same whole number.  Overflow *)
(* of a double to Infinity by magnitude (beyond 1.8e308) is not            *)
(* representable here.  Every figure of a schedule, summary or result is   *)
(* such a number; months and grace months are whole (the caller parses     *)
(* them with parseInt).                                                    *)
(*                                                                         *)
(* Specifications.  Spec applies the facade to one loan; SpecValidator     *)
(* applies the validator and the summarizer to schedules of any content;   *)
(* SpecInputs applies validateInputs to arguments in and out of range;     *)
(* SpecPage is the page of src/js/ui.js driving the facade; SpecTwoLoans   *)
(* interleaves the calls a caller makes for two loans.                     *)
(***************************************************************************)
EXTENDS Integers, Sequences, FiniteSets, TLC

VARIABLES type, principal, annualRate, months, graceMonths,
          schedule, result, summary, validation, inputCheck, session,
          formA, formB, timer, lastResultA, lastResultB,
          currentSchedule, currentScheduleLoan, currentLoanInfo,
          currentDisplayMode, calls, download

\* the page: the two forms, the debounce timer, the module state of the
\* UI, and the facade calls the handler that ran last has made
page == <<formA, formB, timer, lastResultA, lastResultB,
          currentSchedule, currentScheduleLoan, currentLoanInfo,
          currentDisplayMode, calls, download>>

vars == <<type, principal, annualRate, months, graceMonths,
          schedule, result, summary, validation, inputCheck, session, page>>

loan == <<type, principal, annualRate, months, graceMonths>>

\* a call that has not been made yet, and the value a call returned
NotCalled == [called |-> FALSE]

Returned(v) == [called |-> TRUE, value |-> v]

-----------------------------------------------------------------------------
(* Number arithmetic (JavaScript Number operators on exact fractions)      *)

Abs(x) == IF x < 0 THEN -x ELSE x

Sign(x) == IF x < 0 THEN -1 ELSE IF x > 0 THEN 1 ELSE 0

RECURSIVE GCD(_, _)
GCD(a, b) == IF b = 0 THEN a ELSE GCD(b, a % b)

\* the fraction n/d in lowest terms, denominator positive (or 0: non-finite)
Norm(n, d) ==
  IF d = 0 THEN [n |-> Sign(n), d |-> 0]
  ELSE LET g == GCD(Abs(n), Abs(d))
           s == IF d < 0 THEN -1 ELSE 1
       IN  [n |-> s * (n \div g), d |-> Abs(d) \div g]

\* an integer as a number
Q(k) == [n |-> k, d |-> 1]

NaN == [n |-> 0, d |-> 0]

\* isFinite(v) && !isNaN(v)
isFinite(v) == v.d # 0

\* a + b
AddQ(a, b) ==
  IF a.d = 0 /\ b.d = 0 THEN (IF a.n = b.n THEN a ELSE NaN)
  ELSE IF a.d = 0 THEN a
  ELSE IF b.d = 0 THEN b
  ELSE LET g == GCD(a.d, b.d)
       IN  Norm(a.n * (b.d \div g) + b.n * (a.d \div g), (a.d \div g) * b.d)

\* -a
NegQ(a) == [n |-> -a.n, d |-> a.d]

\* a - b
SubQ(a, b) == AddQ(a, NegQ(b))

\* a * b
MulQ(a, b) ==
  IF a.d = 0 \/ b.d = 0 THEN Norm(Sign(a.n) * Sign(b.n), 0)
  ELSE LET g1 == GCD(Abs(a.n), b.d)
           g2 == GCD(Abs(b.n), a.d)
       IN  Norm((a.n \div g1) * (b.n \div g2), (a.d \div g2) * (b.d \div g1))

\* a / b
DivQ(a, b) ==
  IF b.d = 0 THEN (IF a.d = 0 THEN NaN ELSE Q(0))
  ELSE IF b.n = 0 THEN Norm(a.n, 0)
  ELSE MulQ(a, Norm(b.d, b.n))

\* a < b (false when either side is NaN)
LtQ(a, b) ==
  IF a = NaN \/ b = NaN THEN FALSE
  ELSE IF a.d = 0 /\ b.d = 0 THEN a.n < b.n
  ELSE IF a.d = 0 THEN a.n < 0
  ELSE IF b.d = 0 THEN b.n > 0
  ELSE LET g == GCD(a.d, b.d)
       IN  a.n * (b.d \div g) < b.n * (a.d \div g)

\* a <= b (false when either side is NaN)
LeQ(a, b) == a # NaN /\ b # NaN /\ ~LtQ(b, a)

\* Math.abs(a)
AbsQ(a) == [n |-> Abs(a.n), d |-> a.d]

\* Math.max(a, b)
MathMax(a, b) ==
  IF a = NaN \/ b = NaN THEN NaN
  ELSE IF LtQ(a, b) THEN b ELSE a

\* Math.pow(b, k) for a whole exponent k >= 0
RECURSIVE MathPow(_, _)
MathPow(b, k) == IF k <= 0 THEN Q(1) ELSE MulQ(b, MathPow(b, k - 1))

\* Math.round(v) for a finite v: the nearest whole number, halves upwards
MathRound(v) ==
  (v.n \div v.d) + (IF 2 * (v.n % v.d) >= v.d THEN 1 ELSE 0)

-----------------------------------------------------------------------------
(* Configuration                                                            *)

toleranceWon == 10
minPrincipal == 100000
\* maxPrincipal is 10000000000 = maxPrincipalUnits * minPrincipal; the
\* product does not fit a 32-bit integer, so it is kept as a multiple
maxPrincipalUnits == 100000
minMonths == 1
maxMonths == 600
minRate == 0
maxRate == 30
maxGraceMonths == 120

EQUAL_PRINCIPAL_INTEREST == "equalPrincipalInterest"
EQUAL_PRINCIPAL == "equalPrincipal"
BULLET == "bullet"
GRACE_EPI == "graceEqualPrincipalInterest"
GRACE_EP == "graceEqualPrincipal"

REPAYMENT_TYPES ==
  {EQUAL_PRINCIPAL_INTEREST, EQUAL_PRINCIPAL, BULLET, GRACE_EPI, GRACE_EP}

-----------------------------------------------------------------------------
(* Utilities                                                                *)

roundWon(value) == IF ~isFinite(value) THEN Q(0) ELSE Q(MathRound(value))

getMonthlyRate(annualRatePercent) == DivQ(DivQ(annualRatePercent, Q(100)), Q(12))

\* principal > CONFIG.validation.maxPrincipal
aboveMaxPrincipal(p) ==
  LET units == DivQ(p, Q(minPrincipal))
      whole == units.n \div units.d
  IN  IF ~isFinite(units) THEN units.n > 0
      ELSE \/ whole > maxPrincipalUnits
           \/ whole = maxPrincipalUnits /\ units.n % units.d > 0

\* the error list of validateInputs, one tag per message
validateInputsErrors(p, rate, m, g) ==
  (IF LtQ(p, Q(minPrincipal)) \/ aboveMaxPrincipal(p)
   THEN <<"principal">> ELSE <<>>)
  \o (IF m < minMonths \/ m > maxMonths THEN <<"months">> ELSE <<>>)
  \o (IF LtQ(rate, Q(minRate)) \/ LtQ(Q(maxRate), rate) THEN <<"rate">> ELSE <<>>)
  \o (IF g < 0 \/ g > maxGraceMonths THEN <<"graceRange">> ELSE <<>>)
  \o (IF g >= m THEN <<"graceVsMonths">> ELSE <<>>)

validateInputs(p, rate, m, g) ==
  LET errors == validateInputsErrors(p, rate, m, g)
  IN  [valid |-> Len(errors) = 0, errors |-> errors]

-----------------------------------------------------------------------------
(* Schedule summary (single source of truth)                               *)

\* the forEach accumulation of row[f] over rows lo..hi; the figures are
\* whole numbers, whose addition is associative, so the range is summed
\* by halves
RECURSIVE SumRange(_, _, _, _)
SumRange(s, f, lo, hi) ==
  IF lo > hi THEN Q(0)
  ELSE IF lo = hi THEN s[lo][f]
  ELSE LET mid == (lo + hi) \div 2
       IN  AddQ(SumRange(s, f, lo, mid), SumRange(s, f, mid + 1, hi))

SumField(s, f) == SumRange(s, f, 1, Len(s))

\* the largest payment of any row, 0 taking no part
LargestPayment(s) ==
  LET payments == {s[i].payment : i \in 1..Len(s)}
  IN  CHOOSE x \in payments : \A y \in payments : ~LtQ(x, y)

\* the running maximum of row.payment over the rows, starting from 0
MaxPayment(s) ==
  LET payments == {Q(0)} \cup {s[i].payment : i \in 1..Len(s)}
  IN  CHOOSE x \in payments : \A y \in payments : ~LtQ(x, y)

emptySummary ==
  [firstPayment |-> Q(0), lastPayment |-> Q(0), maxPayment |-> Q(0),
   avgPayment |-> Q(0), totalInterest |-> Q(0), totalPayment |-> Q(0),
   totalPrincipalPaid |-> Q(0), finalBalance |-> Q(0)]

\* a summarizer that reports the sum of the rows' interest as total
\* interest instead of deriving it from the payments
summarizeScheduleInterestSum(s, originalPrincipal) ==
  IF Len(s) = 0 THEN emptySummary
  ELSE
    LET totalInterest == SumField(s, "interest")
        totalPrincipal == SumField(s, "principal")
        totalPayment == SumField(s, "payment")
        maxPayment == MaxPayment(s)
    IN  [firstPayment |-> roundWon(s[1].payment),
         lastPayment |-> roundWon(s[Len(s)].payment),
         maxPayment |-> roundWon(maxPayment),
         avgPayment |-> roundWon(DivQ(totalPayment, Q(Len(s)))),
         totalInterest |-> roundWon(totalInterest),
         totalPayment |-> roundWon(totalPayment),
         totalPrincipalPaid |-> roundWon(totalPrincipal),
         rawInterestSum |-> roundWon(totalInterest),
         finalBalance |-> roundWon(s[Len(s)].balance)]

summarizeSchedule(s, originalPrincipal) ==
  IF Len(s) = 0 THEN emptySummary
  ELSE
    LET totalInterest == SumField(s, "interest")
        totalPrincipal == SumField(s, "principal")
        totalPayment == SumField(s, "payment")
        maxPayment == MaxPayment(s)
        roundedTotalPayment == roundWon(totalPayment)
        derivedTotalInterest == SubQ(roundedTotalPayment, originalPrincipal)
    IN  [firstPayment |-> roundWon(s[1].payment),
         lastPayment |-> roundWon(s[Len(s)].payment),
         maxPayment |-> roundWon(maxPayment),
         avgPayment |-> roundWon(DivQ(totalPayment, Q(Len(s)))),
         totalInterest |-> derivedTotalInterest,
         totalPayment |-> roundedTotalPayment,
         totalPrincipalPaid |-> roundWon(totalPrincipal),
         rawInterestSum |-> roundWon(totalInterest),
         finalBalance |-> roundWon(s[Len(s)].balance)]

-----------------------------------------------------------------------------
(* Schedule validation                                                      *)

\* a check 3 that already fails at the tolerance
rowFailsAtTolerance(row) ==
  LeQ(Q(toleranceWon),
      AbsQ(SubQ(row.payment, AddQ(row.principal, row.interest))))

\* check 3: the row's payment is off by more than the tolerance
rowFails(row) ==
  LtQ(Q(toleranceWon),
      AbsQ(SubQ(row.payment, AddQ(row.principal, row.interest))))

\* rowErrors once the forEach has passed row i
rowErrorsUpTo(s, i) == Cardinality({j \in 1..i : rowFails(s[j])})

countRowErrors(s) == rowErrorsUpTo(s, Len(s))

\* a message for every offending row, however many there are
rowMessagesUncapped(s) ==
  LET at == SelectSeq([i \in 1..Len(s) |-> i], LAMBDA i : rowFails(s[i]))
  IN  [k \in 1..Len(at) |-> [check |-> "row", month |-> s[at[k]].month]]

\* the messages check 3 pushes while walking the rows: one for each
\* offending row that is among the first three, in row order
rowMessages(s) ==
  LET reported(i) == rowFails(s[i]) /\ rowErrorsUpTo(s, i) <= 3
      at == SelectSeq([i \in 1..Len(s) |-> i], reported)
  IN  [k \in 1..Len(at) |-> [check |-> "row", month |-> s[at[k]].month]]

\* the messages of the four checks, in the order they are pushed
scheduleErrors(s, originalPrincipal) ==
  LET sm == summarizeSchedule(s, originalPrincipal)
      principalDiff == AbsQ(SubQ(sm.totalPrincipalPaid, originalPrincipal))
      rowErrors == countRowErrors(s)
      expectedTotal == AddQ(originalPrincipal, sm.totalInterest)
      totalDiff == AbsQ(SubQ(sm.totalPayment, expectedTotal))
  IN  (IF LtQ(Q(toleranceWon), principalDiff)
       THEN <<[check |-> "principalSum", diff |-> principalDiff]>>
       ELSE <<>>)
      \o (IF sm.finalBalance # Q(0)
          THEN <<[check |-> "finalBalance", balance |-> sm.finalBalance]>>
          ELSE <<>>)
      \o rowMessages(s)
      \o (IF rowErrors > 3
          THEN <<[check |-> "moreRows", count |-> rowErrors - 3]>>
          ELSE <<>>)
      \o (IF LtQ(Q(toleranceWon * Len(s)), totalDiff)
          THEN <<[check |-> "totalPayment", expected |-> expectedTotal]>>
          ELSE <<>>)

\* a details record that reports the expected principal as the summed one
scheduleDetailsExpectedSum(s, originalPrincipal) ==
  LET sm == summarizeSchedule(s, originalPrincipal)
  IN  [principalSum |-> originalPrincipal,
       interestSum |-> sm.totalInterest,
       paymentSum |-> sm.totalPayment,
       finalBalance |-> sm.finalBalance,
       originalPrincipal |-> originalPrincipal]

\* the details object of the non-empty return
scheduleDetails(s, originalPrincipal) ==
  LET sm == summarizeSchedule(s, originalPrincipal)
  IN  [principalSum |-> sm.totalPrincipalPaid,
       interestSum |-> sm.totalInterest,
       paymentSum |-> sm.totalPayment,
       finalBalance |-> sm.finalBalance,
       originalPrincipal |-> originalPrincipal]

\* A missing schedule (null, undefined) takes the branch of the empty one
\* and is modelled by the empty sequence; the details object of that branch
\* is {}, the function of empty domain.
validateSchedule(s, originalPrincipal) ==
  IF Len(s) = 0
  THEN [isValid |-> FALSE, errors |-> <<[check |-> "empty"]>>,
        details |-> <<>>]
  ELSE
    LET errors == scheduleErrors(s, originalPrincipal)
    IN  [isValid |-> Len(errors) = 0,
         errors |-> errors,
         details |-> scheduleDetails(s, originalPrincipal)]

-----------------------------------------------------------------------------
(* Equal payment (annuity)                                                  *)

\* M = P * [r(1+r)^n] / [(1+r)^n - 1], unrounded
calcEqualPrincipalInterestPayment(p, monthlyRate, m) ==
  IF m <= 0 THEN Q(0)
  ELSE IF monthlyRate = Q(0) THEN DivQ(p, Q(m))
  ELSE LET compoundFactor == MathPow(AddQ(Q(1), monthlyRate), m)
       IN  IF ~isFinite(compoundFactor) THEN Q(0)
           ELSE DivQ(MulQ(MulQ(p, monthlyRate), compoundFactor),
                     SubQ(compoundFactor, Q(1)))

\* an iteration that carries the rounded balance forward
EPIStepRoundedBalance(st, i, monthlyRate, m, rawPayment) ==
  LET balance == st.balance
      interest == MulQ(balance, monthlyRate)
      principalPaid == IF i = m THEN balance ELSE SubQ(rawPayment, interest)
      payment == AddQ(principalPaid, interest)
      newBalance == MathMax(Q(0), SubQ(balance, principalPaid))
  IN  [rows |-> Append(st.rows, [month |-> i,
                                 payment |-> roundWon(payment),
                                 principal |-> roundWon(principalPaid),
                                 interest |-> roundWon(interest),
                                 balance |-> roundWon(newBalance)]),
       balance |-> roundWon(newBalance)]

\* an iteration with the operands of the principal portion swapped
EPIStepSwapped(st, i, monthlyRate, m, rawPayment) ==
  LET balance == st.balance
      interest == MulQ(balance, monthlyRate)
      principalPaid == IF i = m THEN balance ELSE SubQ(interest, rawPayment)
      payment == AddQ(principalPaid, interest)
      newBalance == MathMax(Q(0), SubQ(balance, principalPaid))
  IN  [rows |-> Append(st.rows, [month |-> i,
                                 payment |-> roundWon(payment),
                                 principal |-> roundWon(principalPaid),
                                 interest |-> roundWon(interest),
                                 balance |-> roundWon(newBalance)]),
       balance |-> newBalance]

\* one iteration of the loop of generateEPISchedule; st carries the rows
\* pushed so far and the running balance
EPIStep(st, i, monthlyRate, m, rawPayment) ==
  LET balance == st.balance
      interest == MulQ(balance, monthlyRate)
      principalPaid == IF i = m THEN balance ELSE SubQ(rawPayment, interest)
      payment == AddQ(principalPaid, interest)
      newBalance == MathMax(Q(0), SubQ(balance, principalPaid))
  IN  [rows |-> Append(st.rows, [month |-> i,
                                 payment |-> roundWon(payment),
                                 principal |-> roundWon(principalPaid),
                                 interest |-> roundWon(interest),
                                 balance |-> roundWon(newBalance)]),
       balance |-> newBalance]

\* iterations lo..hi in order.  The range is split in two to keep the
\* evaluation shallow; the test on half.rows makes the first half run
\* before the second starts
RECURSIVE EPILoop(_, _, _, _, _, _)
EPILoop(st, lo, hi, monthlyRate, m, rawPayment) ==
  IF lo > hi THEN st
  ELSE IF lo = hi THEN EPIStep(st, lo, monthlyRate, m, rawPayment)
  ELSE LET mid == (lo + hi) \div 2
           half == EPILoop(st, lo, mid, monthlyRate, m, rawPayment)
       IN  IF Len(half.rows) < 0 THEN half
           ELSE EPILoop(half, mid + 1, hi, monthlyRate, m, rawPayment)

generateEPISchedule(p, monthlyRate, m) ==
  EPILoop([rows |-> <<>>, balance |-> p], 1, m, monthlyRate, m,
          calcEqualPrincipalInterestPayment(p, monthlyRate, m)).rows

-----------------------------------------------------------------------------
(* Equal principal                                                          *)

\* an iteration that charges interest on the balance left after the
\* payment
EPStepInterestAfterPayment(st, i, monthlyRate, m, monthlyPrincipal) ==
  LET balance == st.balance
      principalPaid == IF i = m THEN balance ELSE monthlyPrincipal
      newBalance == MathMax(Q(0), SubQ(balance, principalPaid))
      interest == MulQ(newBalance, monthlyRate)
      payment == AddQ(principalPaid, interest)
  IN  [rows |-> Append(st.rows, [month |-> i,
                                 payment |-> roundWon(payment),
                                 principal |-> roundWon(principalPaid),
                                 interest |-> roundWon(interest),
                                 balance |-> roundWon(newBalance)]),
       balance |-> newBalance]

\* an iteration that emits the balance before the payment is applied
EPStepBalanceBefore(st, i, monthlyRate, m, monthlyPrincipal) ==
  LET balance == st.balance
      interest == MulQ(balance, monthlyRate)
      principalPaid == IF i = m THEN balance ELSE monthlyPrincipal
      payment == AddQ(principalPaid, interest)
      newBalance == MathMax(Q(0), SubQ(balance, principalPaid))
  IN  [rows |-> Append(st.rows, [month |-> i,
                                 payment |-> roundWon(payment),
                                 principal |-> roundWon(principalPaid),
                                 interest |-> roundWon(interest),
                                 balance |-> roundWon(balance)]),
       balance |-> newBalance]

\* one iteration of the loop of generateEPSchedule
EPStep(st, i, monthlyRate, m, monthlyPrincipal) ==
  LET balance == st.balance
      interest == MulQ(balance, monthlyRate)
      principalPaid == IF i = m THEN balance ELSE monthlyPrincipal
      payment == AddQ(principalPaid, interest)
      newBalance == MathMax(Q(0), SubQ(balance, principalPaid))
  IN  [rows |-> Append(st.rows, [month |-> i,
                                 payment |-> roundWon(payment),
                                 principal |-> roundWon(principalPaid),
                                 interest |-> roundWon(interest),
                                 balance |-> roundWon(newBalance)]),
       balance |-> newBalance]

\* iterations lo..hi in order
RECURSIVE EPLoop(_, _, _, _, _, _)
EPLoop(st, lo, hi, monthlyRate, m, monthlyPrincipal) ==
  IF lo > hi THEN st
  ELSE IF lo = hi THEN EPStep(st, lo, monthlyRate, m, monthlyPrincipal)
  ELSE LET mid == (lo + hi) \div 2
           half == EPLoop(st, lo, mid, monthlyRate, m, monthlyPrincipal)
       IN  IF Len(half.rows) < 0 THEN half
           ELSE EPLoop(half, mid + 1, hi, monthlyRate, m, monthlyPrincipal)

generateEPSchedule(p, monthlyRate, m) ==
  EPLoop([rows |-> <<>>, balance |-> p], 1, m, monthlyRate, m,
         DivQ(p, Q(m))).rows

-----------------------------------------------------------------------------
(* Bullet                                                                   *)

\* a row whose final payment leaves out the interest
bulletRowPrincipalOnly(i, p, monthlyInterest, m) ==
  LET isLast == i = m
  IN  [month |-> i,
       payment |-> IF isLast THEN p ELSE monthlyInterest,
       principal |-> IF isLast THEN p ELSE Q(0),
       interest |-> monthlyInterest,
       balance |-> IF isLast THEN Q(0) ELSE p,
       note |-> IF isLast THEN "bulletRepayment" ELSE "interestOnly"]

bulletRow(i, p, monthlyInterest, m) ==
  LET isLast == i = m
  IN  [month |-> i,
       payment |-> IF isLast THEN AddQ(p, monthlyInterest) ELSE monthlyInterest,
       principal |-> IF isLast THEN p ELSE Q(0),
       interest |-> monthlyInterest,
       balance |-> IF isLast THEN Q(0) ELSE p,
       note |-> IF isLast THEN "bulletRepayment" ELSE "interestOnly"]

\* a generator that does not round the monthly interest
generateBulletScheduleRawInterest(p, monthlyRate, m) ==
  LET monthlyInterest == MulQ(p, monthlyRate)
  IN  [i \in 1..m |-> bulletRow(i, p, monthlyInterest, m)]

generateBulletSchedule(p, monthlyRate, m) ==
  LET monthlyInterest == roundWon(MulQ(p, monthlyRate))
  IN  [i \in 1..m |-> bulletRow(i, p, monthlyInterest, m)]

-----------------------------------------------------------------------------
(* Grace period                                                             *)

\* a grace row that rounds the balance like the repayment rows do
graceRowRoundedBalance(i, p, graceInterest) ==
  [month |-> i, payment |-> graceInterest, principal |-> Q(0),
   interest |-> graceInterest, balance |-> roundWon(p), isGracePeriod |-> TRUE]

graceRow(i, p, graceInterest) ==
  [month |-> i, payment |-> graceInterest, principal |-> Q(0),
   interest |-> graceInterest, balance |-> p, isGracePeriod |-> TRUE]

\* one iteration of the 'EPI' repayment loop of generateGraceSchedule
GraceEPIStep(st, i, monthlyRate, repaymentMonths, rawPayment, g) ==
  LET balance == st.balance
      interest == MulQ(balance, monthlyRate)
      principalPaid == IF i = repaymentMonths THEN balance
                       ELSE SubQ(rawPayment, interest)
      payment == AddQ(principalPaid, interest)
      newBalance == MathMax(Q(0), SubQ(balance, principalPaid))
  IN  [rows |-> Append(st.rows, [month |-> g + i,
                                 payment |-> roundWon(payment),
                                 principal |-> roundWon(principalPaid),
                                 interest |-> roundWon(interest),
                                 balance |-> roundWon(newBalance),
                                 isGracePeriod |-> FALSE]),
       balance |-> newBalance]

RECURSIVE GraceEPILoop(_, _, _, _, _, _, _)
GraceEPILoop(st, lo, hi, monthlyRate, repaymentMonths, rawPayment, g) ==
  IF lo > hi THEN st
  ELSE IF lo = hi
       THEN GraceEPIStep(st, lo, monthlyRate, repaymentMonths, rawPayment, g)
  ELSE LET mid == (lo + hi) \div 2
           half == GraceEPILoop(st, lo, mid, monthlyRate, repaymentMonths,
                                rawPayment, g)
       IN  IF Len(half.rows) < 0 THEN half
           ELSE GraceEPILoop(half, mid + 1, hi, monthlyRate, repaymentMonths,
                        rawPayment, g)

\* an iteration that numbers its row from the start of the repayment
\* period instead of the start of the loan
GraceEPStepLocalMonth(st, i, monthlyRate, repaymentMonths, monthlyPrincipal, g) ==
  LET balance == st.balance
      interest == MulQ(balance, monthlyRate)
      principalPaid == IF i = repaymentMonths THEN balance
                       ELSE monthlyPrincipal
      payment == AddQ(principalPaid, interest)
      newBalance == MathMax(Q(0), SubQ(balance, principalPaid))
  IN  [rows |-> Append(st.rows, [month |-> i,
                                 payment |-> roundWon(payment),
                                 principal |-> roundWon(principalPaid),
                                 interest |-> roundWon(interest),
                                 balance |-> roundWon(newBalance),
                                 isGracePeriod |-> FALSE]),
       balance |-> newBalance]

\* one iteration of the 'EP' repayment loop of generateGraceSchedule
GraceEPStep(st, i, monthlyRate, repaymentMonths, monthlyPrincipal, g) ==
  LET balance == st.balance
      interest == MulQ(balance, monthlyRate)
      principalPaid == IF i = repaymentMonths THEN balance
                       ELSE monthlyPrincipal
      payment == AddQ(principalPaid, interest)
      newBalance == MathMax(Q(0), SubQ(balance, principalPaid))
  IN  [rows |-> Append(st.rows, [month |-> g + i,
                                 payment |-> roundWon(payment),
                                 principal |-> roundWon(principalPaid),
                                 interest |-> roundWon(interest),
                                 balance |-> roundWon(newBalance),
                                 isGracePeriod |-> FALSE]),
       balance |-> newBalance]

RECURSIVE GraceEPLoop(_, _, _, _, _, _, _)
GraceEPLoop(st, lo, hi, monthlyRate, repaymentMonths, monthlyPrincipal, g) ==
  IF lo > hi THEN st
  ELSE IF lo = hi
       THEN GraceEPStep(st, lo, monthlyRate, repaymentMonths, monthlyPrincipal, g)
  ELSE LET mid == (lo + hi) \div 2
           half == GraceEPLoop(st, lo, mid, monthlyRate, repaymentMonths,
                               monthlyPrincipal, g)
       IN  IF Len(half.rows) < 0 THEN half
           ELSE GraceEPLoop(half, mid + 1, hi, monthlyRate, repaymentMonths,
                        monthlyPrincipal, g)

\* a generator that sizes the repayment by the whole term instead of the
\* months left after the grace period
generateGraceScheduleFullTerm(p, monthlyRate, m, g, repaymentType) ==
  LET repaymentMonths == m - g
      graceInterest == roundWon(MulQ(p, monthlyRate))
      graceRows == [i \in 1..g |-> graceRow(i, p, graceInterest)]
      start == [rows |-> graceRows, balance |-> p]
  IN  IF repaymentType = "EPI"
      THEN GraceEPILoop(start, 1, repaymentMonths, monthlyRate, repaymentMonths,
             calcEqualPrincipalInterestPayment(p, monthlyRate, m),
             g).rows
      ELSE GraceEPLoop(start, 1, repaymentMonths, monthlyRate, repaymentMonths,
             DivQ(p, Q(m)), g).rows

generateGraceSchedule(p, monthlyRate, m, g, repaymentType) ==
  LET repaymentMonths == m - g
      graceInterest == roundWon(MulQ(p, monthlyRate))
      graceRows == [i \in 1..g |-> graceRow(i, p, graceInterest)]
      start == [rows |-> graceRows, balance |-> p]
  IN  IF repaymentType = "EPI"
      THEN GraceEPILoop(start, 1, repaymentMonths, monthlyRate, repaymentMonths,
             calcEqualPrincipalInterestPayment(p, monthlyRate, repaymentMonths),
             g).rows
      ELSE GraceEPLoop(start, 1, repaymentMonths, monthlyRate, repaymentMonths,
             DivQ(p, Q(repaymentMonths)), g).rows

-----------------------------------------------------------------------------
(* Unified schedule generation                                              *)

\* the dispatch of the earlier revision: an unknown tag yields no rows
generateScheduleEmptyDefault(t, p, rate, m, g) ==
  LET monthlyRate == getMonthlyRate(rate)
  IN  CASE t = EQUAL_PRINCIPAL_INTEREST -> generateEPISchedule(p, monthlyRate, m)
        [] t = EQUAL_PRINCIPAL -> generateEPSchedule(p, monthlyRate, m)
        [] t = BULLET -> generateBulletSchedule(p, monthlyRate, m)
        [] t = GRACE_EPI -> generateGraceSchedule(p, monthlyRate, m, g, "EPI")
        [] t = GRACE_EP -> generateGraceSchedule(p, monthlyRate, m, g, "EP")
        [] OTHER -> <<>>

generateSchedule(t, p, rate, m, g) ==
  LET monthlyRate == getMonthlyRate(rate)
  IN  CASE t = EQUAL_PRINCIPAL_INTEREST -> generateEPISchedule(p, monthlyRate, m)
        [] t = EQUAL_PRINCIPAL -> generateEPSchedule(p, monthlyRate, m)
        [] t = BULLET -> generateBulletSchedule(p, monthlyRate, m)
        [] t = GRACE_EPI -> generateGraceSchedule(p, monthlyRate, m, g, "EPI")
        [] t = GRACE_EP -> generateGraceSchedule(p, monthlyRate, m, g, "EP")
        [] OTHER -> generateEPISchedule(p, monthlyRate, m)

-----------------------------------------------------------------------------
(* Calculations (summary derived from the schedule)                         *)

calculateEqualPrincipalInterest(p, rate, m) ==
  LET monthlyRate == getMonthlyRate(rate)
      sched == generateEPISchedule(p, monthlyRate, m)
      sm == summarizeSchedule(sched, p)
  IN  [type |-> EQUAL_PRINCIPAL_INTEREST,
       typeName |-> "Equal-Payment",
       principal |-> roundWon(p),
       annualRate |-> rate,
       months |-> m,
       graceMonths |-> 0,
       monthlyPayment |-> sm.firstPayment,
       firstPayment |-> sm.firstPayment,
       lastPayment |-> sm.lastPayment,
       avgPayment |-> sm.avgPayment,
       maxPayment |-> sm.maxPayment,
       totalInterest |-> sm.totalInterest,
       totalPayment |-> sm.totalPayment,
       validation |-> validateSchedule(sched, p)]

calculateEqualPrincipal(p, rate, m) ==
  LET monthlyRate == getMonthlyRate(rate)
      sched == generateEPSchedule(p, monthlyRate, m)
      sm == summarizeSchedule(sched, p)
  IN  [type |-> EQUAL_PRINCIPAL,
       typeName |-> "Equal-Principal",
       principal |-> roundWon(p),
       annualRate |-> rate,
       months |-> m,
       graceMonths |-> 0,
       monthlyPayment |-> sm.firstPayment,
       firstPayment |-> sm.firstPayment,
       lastPayment |-> sm.lastPayment,
       avgPayment |-> sm.avgPayment,
       maxPayment |-> sm.maxPayment,
       totalInterest |-> sm.totalInterest,
       totalPayment |-> sm.totalPayment,
       validation |-> validateSchedule(sched, p)]

\* the calculation of the earlier revision: totals from the closed form
\* P * r * n on the unrounded monthly interest
calculateBulletClosedForm(p, rate, m) ==
  LET monthlyRate == getMonthlyRate(rate)
      monthlyInterest == MulQ(p, monthlyRate)
      totalInterest == MulQ(monthlyInterest, Q(m))
      finalPayment == AddQ(p, monthlyInterest)
      totalPayment == AddQ(MulQ(monthlyInterest, Q(m - 1)), finalPayment)
  IN  [type |-> BULLET,
       typeName |-> "Bullet",
       principal |-> roundWon(p),
       annualRate |-> rate,
       months |-> m,
       graceMonths |-> 0,
       monthlyPayment |-> roundWon(monthlyInterest),
       firstPayment |-> roundWon(monthlyInterest),
       lastPayment |-> roundWon(finalPayment),
       avgPayment |-> roundWon(DivQ(totalPayment, Q(m))),
       maxPayment |-> roundWon(finalPayment),
       totalInterest |-> roundWon(totalInterest),
       totalPayment |-> roundWon(totalPayment),
       validation |-> validateSchedule(
                        generateBulletSchedule(p, monthlyRate, m), p),
       bulletWarning |-> p]

\* bulletWarning carries the principal its message is formatted from
calculateBullet(p, rate, m) ==
  LET monthlyRate == getMonthlyRate(rate)
      sched == generateBulletSchedule(p, monthlyRate, m)
      sm == summarizeSchedule(sched, p)
  IN  [type |-> BULLET,
       typeName |-> "Bullet",
       principal |-> roundWon(p),
       annualRate |-> rate,
       months |-> m,
       graceMonths |-> 0,
       monthlyPayment |-> sm.firstPayment,
       firstPayment |-> sm.firstPayment,
       lastPayment |-> sm.lastPayment,
       avgPayment |-> sm.avgPayment,
       maxPayment |-> sm.maxPayment,
       totalInterest |-> sm.totalInterest,
       totalPayment |-> sm.totalPayment,
       validation |-> validateSchedule(sched, p),
       bulletWarning |-> p]

calculateGraceEqualPrincipalInterest(p, rate, m, g) ==
  LET monthlyRate == getMonthlyRate(rate)
      sched == generateGraceSchedule(p, monthlyRate, m, g, "EPI")
      sm == summarizeSchedule(sched, p)
      gracePayment == roundWon(MulQ(p, monthlyRate))
      repaymentFirstPayment ==
        IF Len(sched) > g THEN sched[g + 1].payment ELSE Q(0)
  IN  [type |-> GRACE_EPI,
       typeName |-> "Grace+Equal-Payment",
       principal |-> roundWon(p),
       annualRate |-> rate,
       months |-> m,
       graceMonths |-> g,
       repaymentMonths |-> m - g,
       gracePayment |-> gracePayment,
       monthlyPayment |-> repaymentFirstPayment,
       firstPayment |-> sm.firstPayment,
       lastPayment |-> sm.lastPayment,
       avgPayment |-> sm.avgPayment,
       maxPayment |-> sm.maxPayment,
       totalInterest |-> sm.totalInterest,
       totalPayment |-> sm.totalPayment,
       validation |-> validateSchedule(sched, p)]

calculateGraceEqualPrincipal(p, rate, m, g) ==
  LET monthlyRate == getMonthlyRate(rate)
      sched == generateGraceSchedule(p, monthlyRate, m, g, "EP")
      sm == summarizeSchedule(sched, p)
      gracePayment == roundWon(MulQ(p, monthlyRate))
      repaymentFirstPayment ==
        IF Len(sched) > g THEN sched[g + 1].payment ELSE Q(0)
  IN  [type |-> GRACE_EP,
       typeName |-> "Grace+Equal-Principal",
       principal |-> roundWon(p),
       annualRate |-> rate,
       months |-> m,
       graceMonths |-> g,
       repaymentMonths |-> m - g,
       gracePayment |-> gracePayment,
       monthlyPayment |-> repaymentFirstPayment,
       firstPayment |-> sm.firstPayment,
       lastPayment |-> sm.lastPayment,
       avgPayment |-> sm.avgPayment,
       maxPayment |-> sm.maxPayment,
       totalInterest |-> sm.totalInterest,
       totalPayment |-> sm.totalPayment,
       validation |-> validateSchedule(sched, p)]

\* LoanCalculator.calculate
calculate(t, p, rate, m, g) ==
  IF t = EQUAL_PRINCIPAL_INTEREST THEN calculateEqualPrincipalInterest(p, rate, m)
  ELSE IF t = EQUAL_PRINCIPAL THEN calculateEqualPrincipal(p, rate, m)
  ELSE IF t = BULLET THEN calculateBullet(p, rate, m)
  ELSE IF t = GRACE_EPI THEN calculateGraceEqualPrincipalInterest(p, rate, m, g)
  ELSE IF t = GRACE_EP THEN calculateGraceEqualPrincipal(p, rate, m, g)
  ELSE calculateEqualPrincipalInterest(p, rate, m)

-----------------------------------------------------------------------------
(* The loans of the model                                                   *)

\* terms 1..MaxShortTerm are combined with every policy, rate and grace
MaxShortTerm == 3
\* grace periods 0..MaxGrace
MaxGrace == 2

\* a policy tag outside REPAYMENT_TYPES
UnknownTag == "stepDown"

Tags == REPAYMENT_TYPES \cup {UnknownTag}

\* policies whose arithmetic needs no power of (1 + r)
LinearTags == {EQUAL_PRINCIPAL, BULLET, GRACE_EP}

\* policies that compute the annuity payment: it carries the denominator
\* (1 + r)^n - 1, which 32-bit arithmetic holds only for short terms
CompoundTags == Tags \ LinearTags

\* annual rates in percent: 0, 4.5, 12, 30
Rates == {Q(0), Norm(9, 2), Q(12), Q(30)}

\* the validated minimum (100000), a principal whose monthly interest is
\* not whole (333333), the documented example (1200000)
Principals == {Q(100000), Q(333333), Q(1200000)}

\* a principal below the validated minimum
TinyPrincipal == Q(11)

\* terms long enough for rounding to accumulate
LongTerms == {12, 48}

ShortTerms == 1..MaxShortTerm

Terms == ShortTerms \cup LongTerms

Graces == 0..MaxGrace

LinearLoans ==
  (LinearTags \X Principals \X Rates \X Terms \X Graces)
  \cup (LinearTags \X {TinyPrincipal} \X Rates \X ShortTerms \X Graces)

\* annuities at 0%: the payment is P / n
ZeroRateLoans ==
  (CompoundTags \X Principals \X {Q(0)} \X Terms \X Graces)
  \cup (CompoundTags \X {TinyPrincipal} \X {Q(0)} \X ShortTerms \X Graces)

\* annuities with interest: the tiny principal at 30%, and larger ones at
\* the (unvalidated) 600%, whose monthly rate 1/2 keeps the fractions short
SteepLoans ==
  (CompoundTags \X {TinyPrincipal} \X {Q(30)} \X ShortTerms \X Graces)
  \cup (CompoundTags \X {Q(100000), Q(333333)} \X {Q(600)} \X ShortTerms \X Graces)

\* annuities with interest that validateInputs accepts; terms beyond 3 do
\* not fit 32-bit arithmetic at these rates
ValidCompoundLoans ==
  CompoundTags \X {Q(100000), Q(250000)} \X {Q(24), Q(30)} \X {1, 2, 3} \X {0, 1, 2}

\* principals that are not whole: 100000.25 and 0.875
FractionalPrincipals == {Norm(400001, 4), Norm(7, 8)}

FractionalLoans ==
  (LinearTags \X FractionalPrincipals \X Rates \X Terms \X Graces)
  \cup (CompoundTags \X FractionalPrincipals \X {Q(0)} \X Terms \X Graces)

\* terms of no months at all, and of fewer
NoTerms == {0, -1}

\* loans whose term is not positive, for every policy
DegenerateLoans ==
  Tags \X {Q(100000), TinyPrincipal} \X {Q(0), Q(30)} \X NoTerms \X Graces

\* the cases of the documented tests
DocumentedLoans ==
  {<<EQUAL_PRINCIPAL, Q(100000000), Norm(9, 2), 360, 0>>,
   <<BULLET, Q(100000000), Norm(9, 2), 360, 0>>,
   <<BULLET, Q(300000000), Norm(9, 2), 360, 0>>}

Loans ==
  LinearLoans \cup ZeroRateLoans \cup SteepLoans \cup ValidCompoundLoans
  \cup FractionalLoans \cup DegenerateLoans \cup DocumentedLoans

-----------------------------------------------------------------------------
(* State machine: one loan, and the calls a caller makes for it            *)

\* the module state of the UI as declared, with no document behind it
null == [isNull |-> TRUE]

\* a variable of the UI that holds v
Some(v) == [isNull |-> FALSE, value |-> v]

\* DISPLAY_MODES: the first 12 records, the first 60, all of them
FIRST_12 == "first12"

FIRST_60 == "first60"

ALL == "all"

DISPLAY_MODES == {FIRST_12, FIRST_60, ALL}

pageNotLoaded ==
  /\ formA = null
  /\ formB = null
  /\ timer = null
  /\ lastResultA = null
  /\ lastResultB = null
  /\ currentSchedule = null
  /\ currentScheduleLoan = null
  /\ currentLoanInfo = null
  /\ currentDisplayMode = FIRST_12
  /\ download = null
  /\ calls = {}

Init ==
  /\ \E l \in Loans :
        /\ type = l[1]
        /\ principal = l[2]
        /\ annualRate = l[3]
        /\ months = l[4]
        /\ graceMonths = l[5]
  /\ schedule = NotCalled
  /\ result = NotCalled
  /\ summary = NotCalled
  /\ validation = NotCalled
  /\ inputCheck = NotCalled
  /\ session = null
  /\ pageNotLoaded

\* LoanCalculator.generateSchedule(type, principal, rate, months, grace)
GenerateSchedule ==
  /\ ~schedule.called
  /\ schedule' = Returned(generateSchedule(type, principal, annualRate, months, graceMonths))
  /\ UNCHANGED <<loan, result, summary, validation, inputCheck, session, page>>

\* LoanCalculator.calculate(type, principal, rate, months, grace)
Calculate ==
  /\ ~result.called
  /\ result' = Returned(calculate(type, principal, annualRate, months, graceMonths))
  /\ UNCHANGED <<loan, schedule, summary, validation, inputCheck, session, page>>

\* LoanCalculator.summarizeSchedule(schedule, principal)
SummarizeSchedule ==
  /\ schedule.called
  /\ ~summary.called
  /\ summary' = Returned(summarizeSchedule(schedule.value, principal))
  /\ UNCHANGED <<loan, schedule, result, validation, inputCheck, session, page>>

\* LoanCalculator.validateSchedule(schedule, principal)
ValidateSchedule ==
  /\ schedule.called
  /\ ~validation.called
  /\ validation' = Returned(validateSchedule(schedule.value, principal))
  /\ UNCHANGED <<loan, schedule, result, summary, inputCheck, session, page>>

Next ==
  \/ GenerateSchedule
  \/ Calculate
  \/ SummarizeSchedule
  \/ ValidateSchedule

Spec == Init /\ [][Next]_vars

-----------------------------------------------------------------------------
(* validateSchedule and summarizeSchedule on schedules of any content       *)

\* validateSchedule and summarizeSchedule are exported and take any array
\* of records; the schedules below are generated ones in which a caller
\* has altered some figures.

\* terms of the schedules that are altered; no months give the empty one
AlteredTerms == {0, 1, 5}

\* what is added to the payment of an offending record: the tolerance, one
\* more, and a refund larger than any payment
PaymentErrors == {Q(toleranceWon), Q(toleranceWon + 1), Q(-1000000)}

\* what is added to the balance of the last record
BalanceErrors == {Q(0), Norm(2, 5), Q(1)}

\* what is added to both the principal part and the payment of record 1
PrincipalErrors == {Q(0), Q(toleranceWon), Q(toleranceWon + 1)}

\* schedule s with paymentError added to the payment of the records in
\* offending, balanceError to the last balance, and principalError to the
\* principal part and the payment of record 1
altered(s, offending, paymentError, balanceError, principalError) ==
  [k \in 1..Len(s) |->
     LET row == s[k]
         shift == IF k = 1 THEN principalError ELSE Q(0)
         extra == IF k \in offending THEN paymentError ELSE Q(0)
     IN  [row EXCEPT
            !.payment = AddQ(AddQ(row.payment, shift), extra),
            !.principal = AddQ(row.principal, shift),
            !.balance = IF k = Len(s) THEN AddQ(row.balance, balanceError)
                        ELSE row.balance]]

\* the original principal passed with the schedule: the one it was
\* generated for, a smaller one, and one that is not finite
OriginalPrincipals == {Q(100000), Q(99000), [n |-> 1, d |-> 0]}

InitValidator ==
  /\ type = EQUAL_PRINCIPAL
  /\ principal \in OriginalPrincipals
  /\ annualRate = Q(12)
  /\ months \in AlteredTerms
  /\ graceMonths = 0
  /\ \E offending \in SUBSET (1..months), paymentError \in PaymentErrors,
        balanceError \in BalanceErrors, principalError \in PrincipalErrors :
        schedule = Returned(altered(
                     generateSchedule(type, Q(100000), annualRate, months, graceMonths),
                     offending, paymentError, balanceError, principalError))
  /\ result = NotCalled
  /\ summary = NotCalled
  /\ validation = NotCalled
  /\ inputCheck = NotCalled
  /\ session = null
  /\ pageNotLoaded

NextValidator ==
  \/ SummarizeSchedule
  \/ ValidateSchedule

SpecValidator == InitValidator /\ [][NextValidator]_vars

-----------------------------------------------------------------------------
(* validateInputs on arguments in and out of range                          *)

Infinity == [n |-> 1, d |-> 0]

\* principals at and around the lower limit, the non-finite ones, and NaN
\* (what a caller passes that parsed an empty field)
InputPrincipals ==
  {NaN, NegQ(Infinity), Q(0), Q(minPrincipal - 1), Q(minPrincipal),
   Q(2000000000), Infinity}

InputRates == {NaN, Q(-1), Q(minRate), Norm(9, 2), Q(maxRate), Norm(301, 10)}

InputTerms == {0, minMonths, maxGraceMonths, maxGraceMonths + 1,
               maxMonths, maxMonths + 1}

InputGraces == {-1, 0, 1, maxGraceMonths, maxGraceMonths + 1, maxMonths}

InitInputs ==
  /\ type = EQUAL_PRINCIPAL_INTEREST
  /\ principal \in InputPrincipals
  /\ annualRate \in InputRates
  /\ months \in InputTerms
  /\ graceMonths \in InputGraces
  /\ schedule = NotCalled
  /\ result = NotCalled
  /\ summary = NotCalled
  /\ validation = NotCalled
  /\ inputCheck = NotCalled
  /\ session = null
  /\ pageNotLoaded

\* LoanCalculator.validate(principal, rate, months, grace)
ValidateInputs ==
  /\ ~inputCheck.called
  /\ inputCheck' = Returned(validateInputs(principal, annualRate, months, graceMonths))
  /\ UNCHANGED <<loan, schedule, result, summary, validation, session, page>>

NextInputs == ValidateInputs

SpecInputs == InitInputs /\ [][NextInputs]_vars

-----------------------------------------------------------------------------
(* Calls for two loans, interleaved                                         *)

\* The calculator has no module-level variable: CONFIG and REPAYMENT_TYPES
\* are constants nothing assigns to, and every array a function pushes to
\* is its own local.  What a call can still touch is the array it is
\* passed, so the schedule of each loan is kept with what was returned.

LoanIds == {1, 2}

\* the loans the caller works on
SessionLoans ==
  { <<EQUAL_PRINCIPAL, Q(100000), Q(12), 3, 0>>,
    <<BULLET, Q(1200000), Q(30), 2, 0>>,
    <<GRACE_EP, Q(333333), Norm(9, 2), 3, 1>> }

\* an array on which schedule.reverse() has been called
scheduleAfterReverse(s) == [k \in 1..Len(s) |-> s[Len(s) + 1 - k]]

\* the array passed to summarizeSchedule or validateSchedule, after the
\* call: forEach and the index reads write to no element
scheduleAfterForEach(s) == s

InitTwoLoans ==
  /\ type = EQUAL_PRINCIPAL_INTEREST
  /\ principal = Q(0)
  /\ annualRate = Q(0)
  /\ months = 0
  /\ graceMonths = 0
  /\ schedule = NotCalled
  /\ result = NotCalled
  /\ summary = NotCalled
  /\ validation = NotCalled
  /\ inputCheck = NotCalled
  /\ session \in [LoanIds -> {[loan |-> l, schedule |-> NotCalled,
                                result |-> NotCalled, summary |-> NotCalled,
                                validation |-> NotCalled] : l \in SessionLoans}]
  /\ pageNotLoaded

\* schedule = LoanCalculator.generateSchedule(...) for loan id
SessionGenerateSchedule(id) ==
  /\ ~session[id].schedule.called
  /\ \E l \in {session[id].loan} :
       session' = [session EXCEPT ![id].schedule =
                     Returned(generateSchedule(l[1], l[2], l[3], l[4], l[5]))]
  /\ UNCHANGED <<loan, schedule, result, summary, validation, inputCheck, page>>

\* LoanCalculator.calculate(...) for loan id
SessionCalculate(id) ==
  /\ ~session[id].result.called
  /\ \E l \in {session[id].loan} :
       session' = [session EXCEPT ![id].result =
                     Returned(calculate(l[1], l[2], l[3], l[4], l[5]))]
  /\ UNCHANGED <<loan, schedule, result, summary, validation, inputCheck, page>>

\* LoanCalculator.summarizeSchedule(schedule, principal) for loan id
SessionSummarizeSchedule(id) ==
  /\ session[id].schedule.called
  /\ ~session[id].summary.called
  /\ \E s \in {session[id].schedule.value} :
       session' = [session EXCEPT
                     ![id].summary = Returned(summarizeSchedule(s, session[id].loan[2])),
                     ![id].schedule = Returned(scheduleAfterForEach(s))]
  /\ UNCHANGED <<loan, schedule, result, summary, validation, inputCheck, page>>

\* LoanCalculator.validateSchedule(schedule, principal) for loan id
SessionValidateSchedule(id) ==
  /\ session[id].schedule.called
  /\ ~session[id].validation.called
  /\ \E s \in {session[id].schedule.value} :
       session' = [session EXCEPT
                     ![id].validation = Returned(validateSchedule(s, session[id].loan[2])),
                     ![id].schedule = Returned(scheduleAfterForEach(s))]
  /\ UNCHANGED <<loan, schedule, result, summary, validation, inputCheck, page>>

NextTwoLoans ==
  \/ \E id \in LoanIds : SessionGenerateSchedule(id)
  \/ \E id \in LoanIds : SessionCalculate(id)
  \/ \E id \in LoanIds : SessionSummarizeSchedule(id)
  \/ \E id \in LoanIds : SessionValidateSchedule(id)

SpecTwoLoans == InitTwoLoans /\ [][NextTwoLoans]_vars

-----------------------------------------------------------------------------
(* The page (src/js/ui.js)                                                  *)

\* the text of an input field: nothing a number can be read from, or the
\* digits of a number
Blank == [blank |-> TRUE]

Typed(x) == [blank |-> FALSE, number |-> x]

\* parseInt(text, 10) || fallback, and parseFloat(text) || 0: NaN and 0
\* are both falsy
parseIntOr(field, fallback) ==
  IF field.blank THEN fallback
  ELSE IF field.number = 0 THEN fallback
  ELSE field.number

parseNumber(field) == parseIntOr(field, 0)

parseFloatOrZero(field) ==
  IF field.blank THEN Q(0) ELSE field.number

Form(p, m, rate, g, repayment, graceRepayment) ==
  [principal |-> p, termMonths |-> m, rate |-> rate, grace |-> g,
   repayment |-> repayment, graceRepayment |-> graceRepayment]

\* what the two loan cards can hold: an acceptable plain loan, an
\* acceptable loan with grace, a bullet loan whose principal field is
\* empty, and a grace field that reads -1
Forms ==
  { Form(Typed(100000), Typed(3), Typed(Q(12)), Blank, EQUAL_PRINCIPAL, "EPI"),
    Form(Typed(1200000), Typed(3), Blank, Typed(1), EQUAL_PRINCIPAL_INTEREST, "EP"),
    Form(Blank, Typed(2), Typed(Q(12)), Blank, BULLET, "EPI"),
    Form(Typed(100000), Typed(3), Typed(Q(12)), Typed(-1), EQUAL_PRINCIPAL, "EP") }

Sides == {"A", "B"}

getLoanInputs(form) ==
  LET grace == parseIntOr(form.grace, 0)
      repaymentType == form.repayment
      graceRepaymentType == IF grace > 0 THEN form.graceRepayment ELSE "EPI"
      finalType ==
        IF grace > 0 /\ repaymentType # BULLET
        THEN IF graceRepaymentType = "EP" THEN GRACE_EP ELSE GRACE_EPI
        ELSE repaymentType
  IN  [principal |-> Q(parseNumber(form.principal)),
       months |-> parseIntOr(form.termMonths, 360),
       rate |-> parseFloatOrZero(form.rate),
       grace |-> grace,
       type |-> finalType,
       rawType |-> repaymentType]

\* the fields validateInput marks as wrong
validateInputErrors(input) ==
  (IF LtQ(input.principal, Q(100000)) THEN <<"principal-min">> ELSE <<>>)
  \o (IF aboveMaxPrincipal(input.principal) THEN <<"principal-max">> ELSE <<>>)
  \o (IF input.months < 1 \/ input.months > 600 THEN <<"term-months">> ELSE <<>>)
  \o (IF LtQ(input.rate, Q(0)) \/ LtQ(Q(30), input.rate) THEN <<"rate">> ELSE <<>>)
  \o (IF input.grace >= input.months THEN <<"grace">> ELSE <<>>)

validateInput(input) == Len(validateInputErrors(input)) = 0

\* a call of the facade: the function and its arguments
Call(fn, input) ==
  [fn |-> fn, type |-> input.type, principal |-> input.principal,
   rate |-> input.rate, months |-> input.months, grace |-> input.grace]

\* calculate(): what it stores and which facade calls it makes, given the
\* forms and the results stored before
pageCalculate(fA, fB, resultA, resultB) ==
  LET input == [side \in Sides |-> getLoanInputs(IF side = "A" THEN fA ELSE fB)]
  IN  IF ~validateInput(input["A"]) \/ ~validateInput(input["B"])
      THEN [lastResult |-> [side \in Sides |->
                              IF side = "A" THEN resultA ELSE resultB],
            calls |-> {}]
      ELSE [lastResult |-> [side \in Sides |->
                              Some(calculate(input[side].type,
                                             input[side].principal,
                                             input[side].rate,
                                             input[side].months,
                                             input[side].grace))],
            calls |-> {Call("calculate", input[side]) : side \in Sides}]

\* the header line of the CSV file: period, payment (principal + interest),
\* principal repaid, interest, balance after repayment, note
csvHeaders == <<"period", "payment", "principal", "interest", "balance", "note">>

\* the last cell of a line: the grace mark, or the note of the record, or
\* nothing
csvNote(row) ==
  IF "isGracePeriod" \in DOMAIN row /\ row.isGracePeriod THEN "gracePeriod"
  ELSE IF "note" \in DOMAIN row THEN row.note
  ELSE ""

\* the cells of the line of a record, interest before principal
csvRowInterestFirst(row) ==
  <<row.month, row.payment, row.interest, row.principal, row.balance,
    csvNote(row)>>

\* the cells of the line of a record
csvRow(row) ==
  <<row.month, row.payment, row.principal, row.interest, row.balance,
    csvNote(row)>>

\* the totals line, its figures those of a summary
csvTotals(v) ==
  <<"total", v.totalPayment, v.totalPrincipalPaid, v.totalInterest, Q(0), "">>

\* the loanInfo argument when it is left out: {}, an object that has no
\* principal
noLoanInfo == [empty |-> TRUE]

\* loanInfo.principal is truthy: there is one and it is neither 0 nor NaN
hasPrincipal(loanInfo) ==
  "principal" \in DOMAIN loanInfo /\ loanInfo.principal.n # 0

\* scheduleToCSV(schedule, loanInfo): the byte order mark and the lines of
\* the text, each line the cells that join(',') writes one after the other;
\* the totals line is pushed when loanInfo.principal is truthy
scheduleToCSV(s, loanInfo) ==
  [bom |-> TRUE,
   lines |->
     <<csvHeaders>>
     \o [k \in 1..Len(s) |-> csvRow(s[k])]
     \o (IF hasPrincipal(loanInfo)
         THEN <<csvTotals(summarizeSchedule(s, loanInfo.principal))>>
         ELSE <<>>) ]

\* init() is about to make its call of calculate()
starting == ~timer.isNull /\ timer.value = "init"

\* a timeout of debouncedCalculate is set and not cleared
pending == ~timer.isNull /\ timer.value \in {"timeout", "expired"}

\* a timeout whose callback is due as soon as it is set, with no wait
expiredAtOnce == ~timer.isNull /\ timer.value \in {"timeout", "expired"}

\* the wait of the timeout set last is over: its callback is due
expired == ~timer.isNull /\ timer.value = "expired"

\* the page when init() has set the listeners and is about to call
\* calculate() on the forms as the document gives them
InitPage ==
  /\ type = EQUAL_PRINCIPAL_INTEREST
  /\ principal = Q(0)
  /\ annualRate = Q(0)
  /\ months = 0
  /\ graceMonths = 0
  /\ schedule = NotCalled
  /\ result = NotCalled
  /\ summary = NotCalled
  /\ validation = NotCalled
  /\ inputCheck = NotCalled
  /\ session = null
  /\ formA \in Forms
  /\ formB \in Forms
  /\ timer = Some("init")
  /\ lastResultA = null
  /\ lastResultB = null
  /\ calls = {}
  /\ currentSchedule = null
  /\ currentScheduleLoan = null
  /\ currentLoanInfo = null
  /\ currentDisplayMode = FIRST_12
  /\ download = null

\* input and change events that leave a card as form f: each clears the
\* pending timeout and sets a new one
InputEvent(side, f) ==
  /\ ~starting
  /\ IF side = "A" THEN formA' = f /\ formB' = formB
                   ELSE formB' = f /\ formA' = formA
  /\ timer' = Some("timeout")
  /\ calls' = {}
  /\ UNCHANGED <<loan, schedule, result, summary, validation, inputCheck, session,
                 lastResultA, lastResultB, currentSchedule,
                 currentScheduleLoan, currentLoanInfo, currentDisplayMode>>
  /\ download' = null

\* the 100 ms of the timeout set last pass with no further input event
Expire ==
  /\ pending
  /\ ~expired
  /\ timer' = Some("expired")
  /\ calls' = {}
  /\ download' = null
  /\ UNCHANGED <<loan, schedule, result, summary, validation, inputCheck, session,
                 formA, formB, lastResultA, lastResultB, currentSchedule,
                 currentScheduleLoan, currentLoanInfo, currentDisplayMode>>

\* calculate() runs: init() calls it once the listeners are set, and the
\* callback of an expired timeout of debouncedCalculate calls it
PageCalculate ==
  /\ starting \/ expired
  /\ timer' = null
  /\ \E done \in {pageCalculate(formA, formB, lastResultA, lastResultB)} :
       /\ lastResultA' = done.lastResult["A"]
       /\ lastResultB' = done.lastResult["B"]
       /\ calls' = done.calls
  /\ UNCHANGED <<loan, schedule, result, summary, validation, inputCheck, session,
                 formA, formB, currentSchedule, currentScheduleLoan,
                 currentLoanInfo, currentDisplayMode>>
  /\ download' = null

\* a click on the schedule button of a card: showSchedule(side)
ShowSchedule(side) ==
  /\ ~starting
  /\ \E input \in {getLoanInputs(IF side = "A" THEN formA ELSE formB)} :
         /\ currentSchedule' = Some(generateSchedule(input.type, input.principal,
                                    input.rate, input.months, input.grace))
         /\ currentLoanInfo' = Some([principal |-> input.principal,
                                     type |-> input.type])
         /\ calls' = {Call("generateSchedule", input)}
  /\ currentScheduleLoan' = Some(side)
  /\ currentDisplayMode' = FIRST_12
  /\ download' = null
  /\ UNCHANGED <<loan, schedule, result, summary, validation, inputCheck, session,
                 formA, formB, timer, lastResultA, lastResultB>>

\* the schedule is dropped and the loan it belongs to is kept
DropScheduleOnly ==
  /\ ~starting
  /\ currentSchedule' = null
  /\ calls' = {}
  /\ download' = null
  /\ UNCHANGED <<loan, schedule, result, summary, validation, inputCheck, session,
                 formA, formB, timer, lastResultA, lastResultB,
                 currentScheduleLoan, currentLoanInfo, currentDisplayMode>>

\* a click on the close button: closeSchedule()
CloseSchedule ==
  /\ ~starting
  /\ currentSchedule' = null
  /\ currentScheduleLoan' = null
  /\ currentLoanInfo' = null
  /\ calls' = {}
  /\ UNCHANGED <<loan, schedule, result, summary, validation, inputCheck, session,
                 formA, formB, timer, lastResultA, lastResultB,
                 currentDisplayMode>>
  /\ download' = null

\* a click on one of the buttons createPaginationControls has put above the
\* displayed schedule: the mode is stored and the table rendered again
PageMode(mode) ==
  /\ ~starting
  /\ ~currentSchedule.isNull
  /\ currentDisplayMode' = mode
  /\ calls' = {}
  /\ download' = null
  /\ UNCHANGED <<loan, schedule, result, summary, validation, inputCheck, session,
                 formA, formB, timer, lastResultA, lastResultB,
                 currentSchedule, currentScheduleLoan, currentLoanInfo>>

\* a click on the download button: downloadCSV() returns at once when no
\* schedule is set, and otherwise offers scheduleToCSV of the schedule and
\* of the loan information as the file of the loan displayed
DownloadCSV ==
  /\ ~starting
  /\ IF currentSchedule.isNull
     THEN download' = null
     ELSE download' = Some([loan |-> currentScheduleLoan.value,
                            csv |-> scheduleToCSV(currentSchedule.value,
                                      IF currentLoanInfo.isNull THEN noLoanInfo
                                      ELSE currentLoanInfo.value)])
  /\ calls' = {}
  /\ UNCHANGED <<loan, schedule, result, summary, validation, inputCheck, session,
                 formA, formB, timer, lastResultA, lastResultB,
                 currentSchedule, currentScheduleLoan, currentLoanInfo,
                 currentDisplayMode>>

NextPage ==
  \/ \E side \in Sides, f \in Forms : InputEvent(side, f)
  \/ Expire
  \/ PageCalculate
  \/ \E side \in Sides : ShowSchedule(side)
  \/ CloseSchedule
  \/ \E mode \in DISPLAY_MODES : PageMode(mode)
  \/ DownloadCSV

SpecPage == InitPage /\ [][NextPage]_vars

\* the steps in which calculate() runs, by what they do to the timer: they
\* are the steps of PageCalculate, which is enabled whenever init() is about
\* to call it or a timeout has expired
CalculateRuns ==
  /\ starting \/ expired
  /\ timer' = null

\* the page when every burst of input events ends, so that the 100 ms of
\* the timeout set last do pass, and when the event loop comes to run the
\* callback of a timeout that has expired before further input clears it
SpecDebounce ==
  /\ InitPage
  /\ [][NextPage]_vars
  /\ WF_vars(Expire)
  /\ SF_timer(CalculateRuns)

-----------------------------------------------------------------------------
(* Properties of the schedules                                              *)

\* one of the five defined policies
KnownPolicy == type \in REPAYMENT_TYPES

\* P > 0, r >= 0, n >= 1, 0 <= g < n
InDomain ==
  /\ LtQ(Q(0), principal)
  /\ LeQ(Q(0), annualRate)
  /\ months >= 1
  /\ 0 <= graceMonths
  /\ graceMonths < months

\* | sum of the emitted principal components - P |
principalSumDiff(s, p) == AbsQ(SubQ(SumField(s, "principal"), p))

\* | payment - (principal + interest) | of one record
rowDiff(row) == AbsQ(SubQ(row.payment, AddQ(row.principal, row.interest)))

\* the balance of record 1 is at most p and no record's balance exceeds
\* that of the record before it
BalanceNeverIncreases(s, p) ==
  /\ LeQ(s[1].balance, p)
  /\ \A k \in 1..(Len(s) - 1) : LeQ(s[k + 1].balance, s[k].balance)

\* C1: for each of the five policies, with P > 0, r >= 0, n >= 1 and
\* 0 <= g < n, the last record of the schedule generateSchedule returns has
\* balance exactly 0.
C1_LastBalanceIsZero ==
  (schedule.called /\ KnownPolicy /\ InDomain)
    => schedule.value[Len(schedule.value)].balance = Q(0)

\* a 48-month equal-principal schedule whose balance is still positive in
\* month 47 and 0 in month 48
C1_Witness ==
  /\ schedule.called
  /\ type = EQUAL_PRINCIPAL
  /\ InDomain
  /\ months = 48
  /\ LtQ(Q(0), schedule.value[47].balance)
  /\ schedule.value[48].balance = Q(0)

\* C2: for each of the five policies, with P > 0, r >= 0, 1 <= n <= 600 and
\* 0 <= g < n, the sum of the emitted (rounded) principal components of the
\* schedule differs from P by no more than CONFIG.toleranceWon = 10.
C2_PrincipalSumWithinTolerance ==
  (schedule.called /\ KnownPolicy /\ InDomain /\ months <= maxMonths)
    => LeQ(principalSumDiff(schedule.value, principal), Q(toleranceWon))

\* C3: in every record of every schedule the generators produce, the
\* emitted payment differs from the emitted principal plus the emitted
\* interest by at most the validator tolerance of 10.
C3_RowsAddUp ==
  schedule.called
    => \A k \in 1..Len(schedule.value) :
         LeQ(rowDiff(schedule.value[k]), Q(toleranceWon))

\* a schedule with a record whose three independently rounded fields do
\* not add up exactly
C3_Witness ==
  /\ schedule.called
  /\ \E k \in 1..Len(schedule.value) :
       /\ rowDiff(schedule.value[k]) # Q(0)
       /\ LeQ(rowDiff(schedule.value[k]), Q(toleranceWon))

\* C4: for every policy and every P, r >= 0, n >= 1, the result of
\* calculate satisfies totalPayment = P + totalInterest exactly, P being the
\* principal given to the call.
C4_TotalPaymentIdentity ==
  (result.called /\ LeQ(Q(0), annualRate) /\ months >= 1)
    => result.value.totalPayment = AddQ(principal, result.value.totalInterest)

\* a result whose derived total interest differs from the sum of the
\* interest column of the schedule, and still satisfies the identity
C4_Witness ==
  /\ result.called
  /\ schedule.called
  /\ months >= 1
  /\ result.value.totalInterest # SumField(schedule.value, "interest")
  /\ result.value.totalPayment = AddQ(principal, result.value.totalInterest)

\* C5: for every policy and every parameter set validateInputs accepts,
\* validateSchedule of the generated schedule and the principal returns
\* isValid = true, and so does the validation attached to the result of
\* calculate.
C5_AcceptedLoansValidate ==
  (KnownPolicy /\ validateInputs(principal, annualRate, months, graceMonths).valid)
    => /\ validation.called => validation.value.isValid
       /\ result.called => result.value.validation.isValid

\* C6: for a policy tag that is none of the five defined tags,
\* calculate(tag, P, r, n, g) returns the result of
\* calculate('equalPrincipalInterest', P, r, n), type field included, and
\* generateSchedule(tag, P, r, n, g) returns the schedule of
\* generateSchedule('equalPrincipalInterest', P, r, n).
C6_UnknownTagIsEqualPayment ==
  ~KnownPolicy
    => /\ result.called
            => result.value =
                 calculate(EQUAL_PRINCIPAL_INTEREST, principal, annualRate, months, 0)
       /\ schedule.called
            => schedule.value =
                 generateSchedule(EQUAL_PRINCIPAL_INTEREST, principal, annualRate,
                                  months, 0)

\* both calls made with an unknown tag and a grace period: a full
\* schedule and a result typed Equal-Payment
C6_Witness ==
  /\ type = UnknownTag
  /\ graceMonths > 0
  /\ result.called
  /\ schedule.called
  /\ result.value.type = EQUAL_PRINCIPAL_INTEREST
  /\ result.value.graceMonths = 0
  /\ Len(schedule.value) = months

\* C7: for every tag and every P, r, n, g, the firstPayment, lastPayment,
\* maxPayment, avgPayment, totalInterest and totalPayment of
\* calculate(tag, P, r, n, g) equal those of
\* summarizeSchedule(generateSchedule(tag, P, r, n, g), P).
C7_ResultMatchesSchedule ==
  result.called
    => LET sm == summarizeSchedule(
                   generateSchedule(type, principal, annualRate, months,
                                    graceMonths), principal)
       IN  /\ result.value.firstPayment = sm.firstPayment
           /\ result.value.lastPayment = sm.lastPayment
           /\ result.value.maxPayment = sm.maxPayment
           /\ result.value.avgPayment = sm.avgPayment
           /\ result.value.totalInterest = sm.totalInterest
           /\ result.value.totalPayment = sm.totalPayment

\* a bullet result whose total interest is not the closed form P * r * n:
\* calculate and summarizeSchedule were both called and agree
C7_Witness ==
  /\ result.called
  /\ summary.called
  /\ type = BULLET
  /\ result.value.totalInterest = summary.value.totalInterest
  /\ result.value.totalInterest
       # roundWon(MulQ(MulQ(principal, getMonthlyRate(annualRate)), Q(months)))

\* C8: for each of the five policies with n >= 1 and 0 <= g < n,
\* generateSchedule returns exactly n records and the k-th record carries
\* period index k.
C8_OneRecordPerMonth ==
  (schedule.called /\ KnownPolicy /\ months >= 1 /\ 0 <= graceMonths
     /\ graceMonths < months)
    => /\ Len(schedule.value) = months
       /\ \A k \in 1..months : schedule.value[k].month = k

\* a grace schedule: grace rows, then repayment rows numbered on from them
C8_Witness ==
  /\ schedule.called
  /\ type = GRACE_EP
  /\ graceMonths = 2
  /\ months = 12
  /\ Len(schedule.value) = 12
  /\ schedule.value[2].isGracePeriod
  /\ ~schedule.value[3].isGracePeriod
  /\ schedule.value[3].month = 3

C10_BulletRows ==
  (schedule.called /\ type = BULLET /\ months >= 1)
    => LET s == schedule.value
           interest == roundWon(MulQ(principal, getMonthlyRate(annualRate)))
       IN  /\ \A k \in 1..Len(s) : s[k].interest = interest
           /\ \A k \in 1..(months - 1) :
                /\ s[k].principal = Q(0)
                /\ s[k].balance = principal
                /\ s[k].payment = s[k].interest
           /\ s[months].principal = principal
           /\ s[months].payment = AddQ(principal, s[months].interest)
           /\ s[months].balance = Q(0)

\* the documented example: 300,000,000 at 4.5% over 360 months pays
\* 1,125,000 each month and 301,125,000 at maturity
C10_Witness ==
  /\ schedule.called
  /\ type = BULLET
  /\ principal = Q(300000000)
  /\ annualRate = Norm(9, 2)
  /\ months = 360
  /\ schedule.value[1].payment = Q(1125000)
  /\ schedule.value[359].interest = Q(1125000)
  /\ schedule.value[360].payment = Q(301125000)

\* one of the two grace policies, with 0 < g < n
GraceLoan ==
  /\ type \in {GRACE_EPI, GRACE_EP}
  /\ 0 < graceMonths
  /\ graceMonths < months

\* C11: for both grace policies with 0 < g < n, records 1..g each have
\* principal 0, balance P, payment = interest = round(P x periodRate) and
\* isGracePeriod true, and every record g+1..n has isGracePeriod false.
C11_GraceRows ==
  (schedule.called /\ GraceLoan)
    => LET s == schedule.value
           interest == roundWon(MulQ(principal, getMonthlyRate(annualRate)))
       IN  /\ \A k \in 1..graceMonths :
                /\ s[k].principal = Q(0)
                /\ s[k].balance = principal
                /\ s[k].payment = interest
                /\ s[k].interest = interest
                /\ s[k].isGracePeriod
           /\ \A k \in (graceMonths + 1)..months : ~s[k].isGracePeriod

\* two grace months on 100,000 at 30%: 2,500 of interest each, then one
\* repayment row
C11_Witness ==
  /\ schedule.called
  /\ type = GRACE_EPI
  /\ principal = Q(100000)
  /\ annualRate = Q(30)
  /\ months = 3
  /\ graceMonths = 2
  /\ schedule.value[2].isGracePeriod
  /\ schedule.value[2].payment = Q(2500)
  /\ schedule.value[2].balance = Q(100000)
  /\ ~schedule.value[3].isGracePeriod

\* the policy a grace policy repays with once the grace period is over
standAlonePolicy ==
  IF type = GRACE_EPI THEN EQUAL_PRINCIPAL_INTEREST ELSE EQUAL_PRINCIPAL

\* C12: for a grace policy with 0 < g < n, the payment, principal, interest
\* and balance of record g+i (i = 1..n-g) equal those of record i of the
\* stand-alone schedule of the corresponding policy generated with the same
\* P, the same rate and term n-g; the period index is offset by g.
C12_GraceMatchesStandAlone ==
  (schedule.called /\ GraceLoan)
    => LET s == schedule.value
           alone == generateSchedule(standAlonePolicy, principal, annualRate,
                                     months - graceMonths, 0)
       IN  /\ Len(alone) = months - graceMonths
           /\ \A i \in 1..(months - graceMonths) :
                /\ s[graceMonths + i].payment = alone[i].payment
                /\ s[graceMonths + i].principal = alone[i].principal
                /\ s[graceMonths + i].interest = alone[i].interest
                /\ s[graceMonths + i].balance = alone[i].balance
                /\ s[graceMonths + i].month = alone[i].month + graceMonths

\* ten repayment months after two grace months, the first of them a row
\* that repays principal
C12_Witness ==
  /\ schedule.called
  /\ type = GRACE_EP
  /\ principal = Q(333333)
  /\ annualRate = Norm(9, 2)
  /\ months = 12
  /\ graceMonths = 2
  /\ schedule.value[3].month = 3
  /\ schedule.value[3].principal = Q(33333)
  /\ schedule.value[3].principal
       = generateSchedule(EQUAL_PRINCIPAL, principal, annualRate, 10, 0)[1].principal

\* the interest the claim gives record k of an equal-principal schedule:
\* round((P - (k-1) x P/n) x periodRate)
equalPrincipalInterestOf(k) ==
  roundWon(MulQ(SubQ(principal, MulQ(Q(k - 1), DivQ(principal, Q(months)))),
                getMonthlyRate(annualRate)))

C14_ZeroRateRepaysPrincipalOnly ==
  (result.called /\ type = EQUAL_PRINCIPAL_INTEREST /\ annualRate = Q(0)
     /\ months >= 1)
    => /\ result.value.monthlyPayment = DivQ(principal, Q(months))
       /\ result.value.totalInterest = Q(0)
       /\ result.value.totalPayment = principal

\* the constant M = P x r(1+r)^n / ((1+r)^n - 1) of the claim
annuityPayment ==
  LET r == getMonthlyRate(annualRate)
      factor == MathPow(AddQ(Q(1), r), months)
  IN  DivQ(MulQ(MulQ(principal, r), factor), SubQ(factor, Q(1)))

\* the unrounded running balance at the start of period k:
\* runningBalance(1) = P, runningBalance(k+1) =
\* runningBalance(k) - (M - runningBalance(k) x r)
RECURSIVE runningBalance(_)
runningBalance(k) ==
  IF k <= 1 THEN principal
  ELSE LET before == runningBalance(k - 1)
       IN  SubQ(before,
                SubQ(annuityPayment, MulQ(before, getMonthlyRate(annualRate))))

summaryFiguresAreZero(r) ==
  /\ r.monthlyPayment = Q(0)
  /\ r.firstPayment = Q(0)
  /\ r.lastPayment = Q(0)
  /\ r.avgPayment = Q(0)
  /\ r.maxPayment = Q(0)
  /\ r.totalInterest = Q(0)
  /\ r.totalPayment = Q(0)

\* the schedule is empty, or every amount in it is zero
emptyOrAllZero(s) ==
  \A k \in 1..Len(s) :
    /\ s[k].payment = Q(0)
    /\ s[k].principal = Q(0)
    /\ s[k].interest = Q(0)
    /\ s[k].balance = Q(0)

\* C18: for termMonths <= 0, with any principal, rate and grace value, each
\* of the five generators returns an empty or all-zero schedule, and
\* calculate returns a complete result whose summary figures are all zero.
C18_NoTermNoSchedule ==
  (KnownPolicy /\ months <= 0)
    => /\ schedule.called => emptyOrAllZero(schedule.value)
       /\ result.called => summaryFiguresAreZero(result.value)

\* the raw figures a validation result is to carry
validationFigures == {"principalSum", "finalBalance", "originalPrincipal"}

\* the result has the three parts of a validation result
wellFormedValidation(v) ==
  /\ DOMAIN v = {"isValid", "errors", "details"}
  /\ v.isValid \in BOOLEAN
  /\ \A k \in 1..Len(v.errors) : "check" \in DOMAIN v.errors[k]

checkOrder(message) ==
  CASE message.check = "principalSum" -> 1
    [] message.check = "finalBalance" -> 2
    [] message.check = "row" -> 3
    [] message.check = "moreRows" -> 4
    [] message.check = "totalPayment" -> 5
    [] OTHER -> 0

\* the schedule has a message of the check
hasMessage(errors, check) == \E k \in 1..Len(errors) : errors[k].check = check

principalInRange(p) == LeQ(Q(100000), p) /\ p # Infinity

rateInRange(rate) == LeQ(Q(0), rate) /\ LeQ(rate, Q(30))

\* the messages due for the violated checks, in the order principal, term,
\* rate, grace range, grace-versus-term
dueMessages(p, rate, m, g) ==
  (IF principalInRange(p) THEN <<>> ELSE <<"principal">>)
  \o (IF 1 <= m /\ m <= 600 THEN <<>> ELSE <<"months">>)
  \o (IF rateInRange(rate) THEN <<>> ELSE <<"rate">>)
  \o (IF 0 <= g /\ g <= 120 THEN <<>> ELSE <<"graceRange">>)
  \o (IF g < m THEN <<>> ELSE <<"graceVsMonths">>)

\* C16: validateInputs returns valid = true exactly when
\* 100000 <= principal <= 10000000000, 1 <= term <= 600, 0 <= rate <= 30,
\* 0 <= grace <= 120 and grace < term; otherwise valid = false with one
\* message per violated check, in the order principal, term, rate, grace
\* range, grace-versus-term; and valid is true exactly when the error list
\* is empty.
C16_ValidIffInRange ==
  inputCheck.called
    => LET v == inputCheck.value
       IN  /\ v.valid <=> /\ principalInRange(principal)
                          /\ 1 <= months /\ months <= 600
                          /\ rateInRange(annualRate)
                          /\ 0 <= graceMonths /\ graceMonths <= 120
                          /\ graceMonths < months
           /\ v.errors = dueMessages(principal, annualRate, months, graceMonths)
           /\ v.valid <=> Len(v.errors) = 0

\* C17: in every sequence of UI events, neither LoanCalculator.calculate
\* nor LoanCalculator.generateSchedule is invoked with parameters that fail
\* the input range check (principal, term, rate, grace <= 120, grace <
\* term), so that for inputs out of range the stored results stay as they
\* are and no schedule is produced.
C17_FacadeCalledInRangeOnly ==
  \A c \in calls :
    validateInputs(c.principal, c.rate, c.months, c.grace).valid

\* a whole number of currency units
isWhole(x) == x.d = 1

\* C21: every numeric field (payment, principal, interest, balance) of
\* every record emitted by each of the five generators is a whole number of
\* currency units, for every principal P > 0, whole or not, every rate and
\* every term.
C21_EmittedFiguresAreWhole ==
  (schedule.called /\ KnownPolicy /\ LtQ(Q(0), principal))
    => \A k \in 1..Len(schedule.value) :
         /\ isWhole(schedule.value[k].payment)
         /\ isWhole(schedule.value[k].principal)
         /\ isWhole(schedule.value[k].interest)
         /\ isWhole(schedule.value[k].balance)

summaryIsZero(v) ==
  /\ v.firstPayment = Q(0)
  /\ v.lastPayment = Q(0)
  /\ v.maxPayment = Q(0)
  /\ v.avgPayment = Q(0)
  /\ v.totalInterest = Q(0)
  /\ v.totalPayment = Q(0)
  /\ v.totalPrincipalPaid = Q(0)
  /\ v.finalBalance = Q(0)

csvLinesFollowSchedule(lines, s) ==
  /\ lines[1] = <<"period", "payment", "principal", "interest", "balance", "note">>
  /\ \A k \in 1..Len(s) :
       /\ lines[k + 1][1] = s[k].month
       /\ lines[k + 1][2] = s[k].payment
       /\ lines[k + 1][3] = s[k].principal
       /\ lines[k + 1][4] = s[k].interest
       /\ lines[k + 1][5] = s[k].balance
       /\ lines[k + 1][6] = csvNote(s[k])

\* the line holds the totals of summarizeSchedule for the schedule and the
\* principal
csvLineIsTotals(line, s, originalPrincipal) ==
  \E v \in {summarizeSchedule(s, originalPrincipal)} :
    /\ line[2] = v.totalPayment
    /\ line[3] = v.totalPrincipalPaid
    /\ line[4] = v.totalInterest

setByShowSchedule(side, f, s, sideShown, info) ==
  \E input \in {getLoanInputs(f)} :
    /\ s = Some(generateSchedule(input.type, input.principal, input.rate,
                                 input.months, input.grace))
    /\ sideShown = Some(side)
    /\ info = Some([principal |-> input.principal, type |-> input.type])

\* C30, in a state: currentSchedule, currentScheduleLoan and currentLoanInfo
\* are all null or all set, and set as one showSchedule call sets them; a
\* file has been offered by downloadCSV only while a schedule is set, and is
\* the file of that schedule
scheduleStateIsWhole ==
  /\ \/ /\ currentSchedule.isNull
        /\ currentScheduleLoan.isNull
        /\ currentLoanInfo.isNull
     \/ \E side \in Sides, f \in Forms :
          setByShowSchedule(side, f, currentSchedule, currentScheduleLoan,
                            currentLoanInfo)
  /\ (~download.isNull)
       => /\ ~currentSchedule.isNull
          /\ download.value.loan = currentScheduleLoan.value
          /\ Len(download.value.csv.lines) > Len(currentSchedule.value)

\* C30, in a step: the three variables change together, to null or to what
\* showSchedule sets for the card as it is; a step that calls
\* generateSchedule leaves the display mode at the first 12 months; a file
\* is offered only by a step that starts with a schedule set and leaves the
\* schedule state as it is
scheduleStepIsWhole ==
  /\ (\/ currentSchedule' # currentSchedule
      \/ currentScheduleLoan' # currentScheduleLoan
      \/ currentLoanInfo' # currentLoanInfo)
       => \/ /\ currentSchedule'.isNull
             /\ currentScheduleLoan'.isNull
             /\ currentLoanInfo'.isNull
          \/ /\ \E side \in Sides :
                  setByShowSchedule(side, IF side = "A" THEN formA ELSE formB,
                                    currentSchedule', currentScheduleLoan',
                                    currentLoanInfo')
             /\ currentDisplayMode' = FIRST_12
  /\ (\E c \in calls' : c.fn = "generateSchedule")
       => /\ currentDisplayMode' = FIRST_12
          /\ ~currentSchedule'.isNull
  /\ (~download'.isNull)
       => /\ ~currentSchedule.isNull
          /\ UNCHANGED <<currentSchedule, currentScheduleLoan, currentLoanInfo,
                         currentDisplayMode>>

\* C30: in every reachable state of the UI, after any sequence of
\* showSchedule, closeSchedule, downloadCSV, page-mode clicks and
\* recalculations, currentSchedule, currentScheduleLoan and currentLoanInfo
\* are either all null or all set by the same showSchedule call; downloadCSV
\* exports only while a schedule is set, and each showSchedule resets the
\* display mode to the first 12 months.
C30_ScheduleStateIsWhole ==
  [](scheduleStateIsWhole) /\ [][scheduleStepIsWhole]_vars

\* the file of the schedule of loan B is offered while all of its records
\* are displayed and the results of a calculation are stored
C30_Witness ==
  /\ ~download.isNull
  /\ download.value.loan = "B"
  /\ ~currentSchedule.isNull
  /\ currentDisplayMode = ALL
  /\ ~lastResultA.isNull

\* no timeout is set and both cards pass validateInput, and the results
\* stored are not the results of calculate() on the cards as they are
staleResults ==
  /\ timer.isNull
  /\ validateInput(getLoanInputs(formA))
  /\ validateInput(getLoanInputs(formB))
  /\ \E done \in {pageCalculate(formA, formB, lastResultA, lastResultB)} :
       \/ lastResultA # done.lastResult["A"]
       \/ lastResultB # done.lastResult["B"]

\* a step of the page: an input event leaves a timeout set whose 100 ms
\* have not passed, whatever was pending; calculate() is called, and the
\* stored results change, only in a step that starts with init() or with a
\* timeout whose 100 ms have passed, that leaves no timeout set and that
\* stores what calculate() makes of the cards as they are
debouncedStep ==
  /\ (formA' # formA \/ formB' # formB)
       => (~timer'.isNull /\ timer'.value = "timeout")
  /\ (timer' # timer /\ ~timer.isNull /\ timer.value = "expired" /\ ~timer'.isNull)
       => timer'.value = "timeout"
  /\ (\/ lastResultA' # lastResultA
      \/ lastResultB' # lastResultB
      \/ \E c \in calls' : c.fn = "calculate"
      \/ (~timer.isNull /\ timer'.isNull))
       => /\ ~timer.isNull
          /\ timer.value \in {"init", "expired"}
          /\ timer'.isNull
          /\ UNCHANGED <<formA, formB>>
          /\ \E done \in {pageCalculate(formA, formB, lastResultA, lastResultB)} :
               /\ lastResultA' = done.lastResult["A"]
               /\ lastResultB' = done.lastResult["B"]
               /\ calls' = done.calls

offendingRecords(s) ==
  {i \in 1..Len(s) :
     LET diff == SubQ(s[i].payment, AddQ(s[i].principal, s[i].interest))
     IN  LtQ(Q(toleranceWon), diff) \/ LtQ(diff, Q(-toleranceWon))}

\* the messages of errors whose check is c, in their order
messagesOf(errors, c) ==
  SelectSeq(errors, LAMBDA e : e.check = c)

\* C26: when k records of a schedule fail the per-record payment check of
\* validateSchedule, the error list holds one message for each of the first
\* min(k, 3) offending records, in period order, and holds the message that
\* counts the rest, reporting k - 3, exactly when k > 3.
C26_FirstThreeThenCount ==
  (validation.called /\ schedule.called /\ Len(schedule.value) > 0)
    => LET s == schedule.value
           offending == offendingRecords(s)
           k == Cardinality(offending)
           rows == messagesOf(validation.value.errors, "row")
           rest == messagesOf(validation.value.errors, "moreRows")
       IN  /\ Len(rows) = IF k < 3 THEN k ELSE 3
           /\ \A j \in 1..Len(rows) :
                \E i \in offending :
                  /\ Cardinality({h \in offending : h <= i}) = j
                  /\ rows[j].month = s[i].month
           /\ Len(rest) = IF k > 3 THEN 1 ELSE 0
           /\ k > 3 => rest[1].count = k - 3

\* a validated schedule of five records, records 1, 2, 4 and 5 offending
C26_Witness ==
  /\ validation.called
  /\ schedule.called
  /\ offendingRecords(schedule.value) = {1, 2, 4, 5}
  /\ Len(validation.value.errors) >= 4

\* C28: check 4 of validateSchedule can never fail: because
\* summarizeSchedule derives totalInterest as totalPayment minus the
\* original principal, for every non-empty schedule and every original
\* principal the message of a total payment mismatch is never appended,
\* whatever the schedule contains.
C28_TotalPaymentCheckNeverFails ==
  (validation.called /\ schedule.called /\ Len(schedule.value) > 0)
    => \A k \in 1..Len(validation.value.errors) :
         validation.value.errors[k].check # "totalPayment"

\* a validated schedule of several records whose payments do not add up to
\* principal parts plus interest, passed with another principal than the one
\* it was generated for, and rejected
C28_Witness ==
  /\ validation.called
  /\ schedule.called
  /\ Len(schedule.value) > 1
  /\ principal = Q(99000)
  /\ SumField(schedule.value, "payment")
       # AddQ(SumField(schedule.value, "principal"),
              SumField(schedule.value, "interest"))
  /\ ~validation.value.isValid

\* C27: for every policy and every parameter set accepted by validateInputs
\* (in particular rate >= 0), the totalInterest reported by summarizeSchedule
\* and by calculate, derived as round(sum of payments) minus the original
\* principal, is never negative.
C27_TotalInterestNeverNegative ==
  (KnownPolicy /\ validateInputs(principal, annualRate, months, graceMonths).valid)
    => /\ (summary.called /\ schedule.called)
            => ~LtQ(summary.value.totalInterest, Q(0))
       /\ result.called => ~LtQ(result.value.totalInterest, Q(0))

\* a and b differ by at most 1 currency unit
withinOne(a, b) == LeQ(AbsQ(SubQ(a, b)), Q(1))

\* C29: in every schedule produced for valid parameters by the
\* Equal-Payment, Equal-Principal and grace generators, consecutive records
\* are consistent on their emitted values: the balance of record k equals the
\* balance of record k-1 minus the principal of record k to within 1
\* currency unit (the balance before record 1 being P), and for n >= 2 the
\* principal of the last record equals the emitted balance of the record
\* before it exactly.
C29_ConsecutiveRecordsAgree ==
  (/\ schedule.called
   /\ type \in {EQUAL_PRINCIPAL_INTEREST, EQUAL_PRINCIPAL, GRACE_EPI, GRACE_EP}
   /\ validateInputs(principal, annualRate, months, graceMonths).valid)
    => LET s == schedule.value
           n == Len(s)
           before(k) == IF k = 1 THEN principal ELSE s[k - 1].balance
       IN  /\ \A k \in 1..n :
                withinOne(s[k].balance, SubQ(before(k), s[k].principal))
           /\ n >= 2 => s[n].principal = s[n - 1].balance

=============================================================================
